---- MODULE Spec2Model ----
(***************************************************************************)
(* Universal Multiplayer relay (src/universal-server.js): the session      *)
(* directory (gameRooms, activePlayers), the socket.io broadcast groups,    *)
(* the message handlers, the periodic cleanup and the shutdown, as one      *)
(* state machine; and the Client Adapter (src/universal-multiplayer.js):    *)
(* its socket callbacks and its update timer.                               *)
(*                                                                          *)
(* JavaScript objects are functions whose DOMAIN is the set of own keys;    *)
(* object spread {...a, ...b} is Merge(a, b).  A handler runs to completion *)
(* (single-threaded event loop), so each handler is one action.  Time       *)
(* passes between handlers (Elapse); every handler reads the clock where    *)
(* the code calls Date.now().  Object.keys lists string keys in insertion   *)
(* order, which gameKeys and roomKeys keep for the directory.               *)
(*                                                                          *)
(* Not modelled: the serverStats counters other than messagesReceived, the   *)
(* joinedAt / createdAt stamps (written once, read by no handler), logging, *)
(* the HTTP routes.  Group names are the roomIds clients supply; the        *)
(* private group socket.io keeps per socket id is left out.                 *)
(***************************************************************************)
EXTENDS Integers, Sequences, FiniteSets, TLC

VARIABLES
  nextId,         \* number of connections accepted so far; identities are 1..nextId
  activePlayers,  \* activePlayers: identity -> [id, roomId, gameId, lastActivity]
  gameRooms,      \* gameRooms: gameId -> (roomId -> Room)
  socketRooms,    \* socket.io adapter: identity -> set of group names it joined
  gameKeys,       \* Object.keys(gameRooms): the categories in insertion order
  roomKeys,       \* gameId -> Object.keys(gameRooms[gameId]), in insertion order
  now,            \* Date.now()
  due,            \* the time from which the cleanup timer is due to fire next
  closing,        \* the SIGINT handler has run: server.close() called, exit pending
  messagesReceived, \* serverStats.messagesReceived
  sent,           \* the emit calls of the last handler, in order
  last,           \* the inbound message (or timer) handled last
  running,        \* the node process of the relay is alive
  client,         \* one UniversalMultiplayer instance (src/universal-multiplayer.js)
  effects         \* what the last client callback did: emits, renders, events

vars == <<nextId, activePlayers, gameRooms, gameKeys, roomKeys, socketRooms, now,
          due, closing, messagesReceived, sent, last, running, client, effects>>

----------------------------------------------------------------------------
(* Bounds of the model *)

MaxConns == 3       \* connections accepted in a run
MaxTicks == 2       \* cleanup intervals that elapse in a run
MaxMessages == 4    \* inbound messages handled in a run of Spec
SweepMessages == 3  \* inbound messages handled in a run of SpecSweep
RelayMessages == 5  \* inbound messages handled in a run of SpecRelay
LobbyMessages == 6  \* inbound messages handled in a run of SpecLobby

(* Program constants *)

CLEANUP_INTERVAL == 900000
INACTIVITY_TIMEOUT == 1800000

\* the resolution of Date.now(): one millisecond
Millisecond == 1

\* The clock is read at the multiples of CLEANUP_INTERVAL and one
\* millisecond after them: the times that tell "longer than the timeout"
\* from "the timeout exactly", and a timer that fires late from one that
\* fires on time.
Offsets == {0, Millisecond}

----------------------------------------------------------------------------
(* Values *)

ConnIds == 1..MaxConns
GameIds == {"g1", "g2"}
RoomIds == {"R1", "R2"}
EventTypes == {"chat"}

Undefined == "undefined"   \* a field the message does not carry
Null == "null"             \* the initial roomId / gameId of an ActivePlayer

\* !!v for the values a roomId or gameId takes
Truthy(v) == v \notin {Undefined, Null}

\* what a client may put in the gameId and roomId fields
GameInputs == GameIds \cup {Undefined}
RoomInputs == RoomIds \cup {Undefined}

\* the attribute maps clients send: playerData at the join, state afterwards
PlayerDatas == {[x |-> 1]}
States == {[x |-> 2, y |-> 1]}

----------------------------------------------------------------------------
(* JavaScript object helpers *)

\* {...a, ...b}
Merge(a, b) ==
  [k \in (DOMAIN a) \cup (DOMAIN b) |-> IF k \in DOMAIN b THEN b[k] ELSE a[k]]

\* o[k] = v
Put(o, k, v) == [x \in (DOMAIN o) \cup {k} |-> IF x = k THEN v ELSE o[x]]

\* delete o[k]
Del(o, k) == [x \in (DOMAIN o) \ {k} |-> o[x]]

\* Object.keys order after o[k] = v : an existing key keeps its place
KeysPut(ks, k) ==
  IF \E i \in 1..Len(ks) : ks[i] = k THEN ks ELSE Append(ks, k)

\* Object.keys order after delete o[k]
KeysDel(ks, k) == SelectSeq(ks, LAMBDA x : x # k)

EmptyObj == [k \in {} |-> 0]

\* Object.keys(o) after a handler, from Object.keys before it (ks) and the
\* own keys o has now (dom): string keys are listed in insertion order, so
\* the deleted keys drop out and a key the handler created comes last (no
\* handler creates more than one key in an object, and none re-creates a
\* key it deleted)
KeysAfter(ks, dom) ==
  LET old == {ks[i] : i \in 1..Len(ks)}
  IN SelectSeq(ks, LAMBDA k : k \in dom)
       \o (IF dom \subseteq old THEN <<>> ELSE <<CHOOSE k \in dom \ old : TRUE>>)

----------------------------------------------------------------------------
(* socket.io broadcast groups *)

\* io.to(room): every socket that joined the group
Group(sr, room) == {d \in DOMAIN sr : room \in sr[d]}

\* socket.to(room): the group without the sending socket
GroupExcept(sr, room, c) == Group(sr, room) \ {c}

\* one emit call: the event, the sockets it is delivered to, the payload
Emit(event, to, data) == [event |-> event, to |-> to, data |-> data]

----------------------------------------------------------------------------
(* The server state a handler reads and writes, as one record *)

Server(ap, gr, sr, out) == [ap |-> ap, gr |-> gr, sr |-> sr, out |-> out]

RoomExists(gr, g, r) == g \in DOMAIN gr /\ r \in DOMAIN gr[g]

\* gameRooms[g][r] = room
PutRoom(gr, g, r, room) == Put(gr, g, Put(gr[g], r, room))

\* Math.random().toString(36).substring(2, 8).toUpperCase(): any token; it
\* is not compared with the rooms that exist.
generateRoomId == RoomIds

\* if (!gameRooms[gameId]) gameRooms[gameId] = {}
EnsureCategory(gr, gameId) ==
  IF gameId \in DOMAIN gr THEN gr ELSE Put(gr, gameId, EmptyObj)

\* a join that builds the room record without testing that it exists
EnsureRoom_Always(gr, gameId, targetRoomId, t) ==
  PutRoom(gr, gameId, targetRoomId,
          [roomId |-> targetRoomId, gameId |-> gameId,
           players |-> EmptyObj, keys |-> <<>>, lastActivity |-> t])

\* if (!gameRooms[gameId][targetRoomId]) gameRooms[gameId][targetRoomId] = {...}
EnsureRoom(gr, gameId, targetRoomId, t) ==
  IF targetRoomId \in DOMAIN gr[gameId] THEN gr
  ELSE PutRoom(gr, gameId, targetRoomId,
               [roomId |-> targetRoomId, gameId |-> gameId,
                players |-> EmptyObj, keys |-> <<>>, lastActivity |-> t])

\* a backfill without the id !== socket.id test
Existing_All(room, c) == room.keys

\* the players the joiner is told about: Object.entries(players), id !== socket.id
Existing(room, c) == SelectSeq(room.keys, LAMBDA id : id # c)

\* a count taken before the joiner is inserted
PlayerCount_BeforeInsert(room) == Cardinality(DOMAIN room.players) - 1

\* Object.keys(gameRooms[gameId][targetRoomId].players).length
PlayerCount(room) == Cardinality(DOMAIN room.players)

\* a join that sends the backfill before the acknowledgement
JoinEmits_BackfillFirst(ack, others, backfill) == backfill \o <<ack, others>>

\* the emits of a join, in the order the handler makes them
JoinEmits(ack, others, backfill) == <<ack, others>> \o backfill

\* socket.on('joinGame'), gen being the value of generateRoomId() if it is called
JoinGameBody(S, c, gameId, roomId, playerData, gen, t) ==
  LET targetRoomId == IF Truthy(roomId) THEN roomId ELSE gen
      gr2 == EnsureRoom(EnsureCategory(S.gr, gameId), gameId, targetRoomId, t)
      room == gr2[gameId][targetRoomId]
      snap == Merge([id |-> c, lastActivity |-> t], playerData)
      room2 == [room EXCEPT !.players = Put(room.players, c, snap),
                            !.keys = KeysPut(room.keys, c)]
      gr3 == PutRoom(gr2, gameId, targetRoomId, room2)
      ap2 == [S.ap EXCEPT ![c].roomId = targetRoomId, ![c].gameId = gameId]
      sr2 == [S.sr EXCEPT ![c] = @ \cup {targetRoomId}]
      ack == Emit("roomJoined", {c},
                  [roomId |-> targetRoomId, gameId |-> gameId, playerId |-> c,
                   playerCount |-> PlayerCount(room2)])
      others == Emit("playerJoined", GroupExcept(sr2, targetRoomId, c),
                     [id |-> c, playerData |-> playerData])
      existing == Existing(room2, c)
      backfill == [i \in 1..Len(existing) |->
                     Emit("playerJoined", {c},
                          [id |-> existing[i],
                           playerData |-> room2.players[existing[i]]])]
  IN Server(ap2, gr3, sr2, S.out \o JoinEmits(ack, others, backfill))

\* handlers without the membership guard
HasRoom_Always(player) == TRUE

\* if (!player || !player.roomId) return;  (negated)
HasRoom(player) == Truthy(player.roomId)

\* a broadcast addressed to the room the sender's record names
TargetRoom_Recorded(player, roomId) == player.roomId

\* the group a stateUpdate or gameEvent is broadcast to: the roomId it carries
TargetRoom(player, roomId) == roomId

\* the merge of a stateUpdate into the stored snapshot
MergeState(snapshot, state, t) ==
  Merge(Merge(snapshot, state), [lastActivity |-> t])

\* socket.on('stateUpdate')
StateUpdateBody(S, c, roomId, state, t) ==
  LET player == S.ap[c]
  IN IF ~HasRoom(player) THEN S
     ELSE
       LET ap2 == [S.ap EXCEPT ![c].lastActivity = t]
           g == player.gameId
           gr2 == IF RoomExists(S.gr, g, roomId)
                  THEN LET room == S.gr[g][roomId]
                           players2 ==
                             IF c \in DOMAIN room.players
                             THEN [room.players EXCEPT ![c] = MergeState(@, state, t)]
                             ELSE room.players
                       IN PutRoom(S.gr, g, roomId,
                                  [room EXCEPT !.lastActivity = t,
                                               !.players = players2])
                  ELSE S.gr
           msg == Emit("stateUpdate",
                       GroupExcept(S.sr, TargetRoom(player, roomId), c),
                       [id |-> c, state |-> state, timestamp |-> t])
       IN Server(ap2, gr2, S.sr, Append(S.out, msg))

\* socket.on('gameEvent')
GameEventBody(S, c, roomId, eventType, eventData, t) ==
  LET player == S.ap[c]
  IN IF ~HasRoom(player) THEN S
     ELSE
       LET ap2 == [S.ap EXCEPT ![c].lastActivity = t]
           msg == Emit("gameEvent", Group(S.sr, TargetRoom(player, roomId)),
                       [id |-> c, eventType |-> eventType,
                        eventData |-> eventData, timestamp |-> t])
       IN Server(ap2, S.gr, S.sr, Append(S.out, msg))

\* a cleanup that deletes the empty room and keeps its empty category
CleanUpEmpty_KeepCategory(gr, gameId, roomId, room) ==
  IF DOMAIN room.players = {}
  THEN Put(gr, gameId, Del(gr[gameId], roomId))
  ELSE PutRoom(gr, gameId, roomId, room)

\* a cleanup that leaves the emptied room in the directory
CleanUpEmpty_KeepRoom(gr, gameId, roomId, room) ==
  PutRoom(gr, gameId, roomId, room)

\* "Clean up empty rooms" and "Clean up empty game categories" of the
\* disconnect handler, room being gameRooms[gameId][roomId] after the delete
CleanUpEmpty(gr, gameId, roomId, room) ==
  IF DOMAIN room.players = {}
  THEN LET cat == Del(gr[gameId], roomId)
       IN IF DOMAIN cat = {} THEN Del(gr, gameId) ELSE Put(gr, gameId, cat)
  ELSE PutRoom(gr, gameId, roomId, room)

\* socket.on('disconnect'): the socket has left its groups when it runs
DisconnectBody(S, c, t) ==
  LET player == S.ap[c]
      sr2 == Del(S.sr, c)
      roomId == player.roomId
      gameId == player.gameId
      hit == Truthy(roomId) /\ Truthy(gameId) /\ RoomExists(S.gr, gameId, roomId)
      room == S.gr[gameId][roomId]
      room2 == [room EXCEPT !.players = Del(room.players, c),
                            !.keys = KeysDel(room.keys, c)]
      left == Emit("playerLeft", GroupExcept(sr2, roomId, c),
                   [id |-> c, timestamp |-> t])
  IN IF hit
     THEN Server(Del(S.ap, c), CleanUpEmpty(S.gr, gameId, roomId, room2), sr2,
                 Append(S.out, left))
     ELSE Server(Del(S.ap, c), S.gr, sr2, S.out)

----------------------------------------------------------------------------
(* The cleanup timer *)

\* a sweep that takes the timeout itself for past the timeout
Inactive_AtTimeout(lastActivity, t) == t - lastActivity >= INACTIVITY_TIMEOUT

\* now - lastActivity > INACTIVITY_TIMEOUT
Inactive(lastActivity, t) == t - lastActivity > INACTIVITY_TIMEOUT

\* the player sweep over Object.keys(activePlayers), taken before the loop:
\* socket.disconnect(true) runs the disconnect handler of an idle player
RECURSIVE PlayerSweep(_, _, _)
PlayerSweep(S, ids, t) ==
  IF ids = <<>> THEN S
  ELSE LET id == Head(ids)
           S2 == IF Inactive(S.ap[id].lastActivity, t)
                 THEN DisconnectBody(S, id, t)
                 ELSE S
       IN PlayerSweep(S2, Tail(ids), t)

\* the inner loop of the room sweep, over the rooms of one category
RECURSIVE RoomSweepRooms(_, _, _, _)
RoomSweepRooms(S, g, rs, t) ==
  IF rs = <<>> THEN S
  ELSE LET r == Head(rs)
           S2 == IF Inactive(S.gr[g][r].lastActivity, t)
                 THEN Server(S.ap, Put(S.gr, g, Del(S.gr[g], r)), S.sr,
                             Append(S.out,
                                    Emit("roomClosed", Group(S.sr, r),
                                         [reason |-> "inactivity", roomId |-> r])))
                 ELSE S
       IN RoomSweepRooms(S2, g, Tail(rs), t)

\* a room sweep that leaves the emptied category in the directory
DropEmptyCategory_Keep(gr, g) == gr

\* if (Object.keys(gameRooms[gameId]).length === 0) delete gameRooms[gameId]
DropEmptyCategory(gr, g) == IF DOMAIN gr[g] = {} THEN Del(gr, g) ELSE gr

\* the outer loop of the room sweep, over the categories gs; the rooms of
\* a category are visited in the order of Object.keys(gameRooms[gameId]),
\* which is rk[g] without the rooms the player sweep deleted
RECURSIVE RoomSweep(_, _, _, _)
RoomSweep(S, gs, rk, t) ==
  IF gs = <<>> THEN S
  ELSE LET g == Head(gs)
           S2 == RoomSweepRooms(S, g,
                                SelectSeq(rk[g], LAMBDA r : r \in DOMAIN S.gr[g]), t)
           S3 == Server(S2.ap, DropEmptyCategory(S2.gr, g), S2.sr, S2.out)
       IN RoomSweep(S3, Tail(gs), rk, t)

\* Object.keys(activePlayers): identities in the order they connected
RECURSIVE IdSeq(_, _)
IdSeq(ids, from) ==
  IF ids = {} THEN <<>>
  ELSE IF from \in ids THEN <<from>> \o IdSeq(ids \ {from}, from + 1)
       ELSE IdSeq(ids, from + 1)

\* the setInterval callback, run at time t; gk and rk are Object.keys of
\* gameRooms and of its categories when the callback starts.  The room
\* sweep takes Object.keys(gameRooms) after the player sweep: gk without the
\* categories the player sweep deleted
CleanupBody(S, gk, rk, t) ==
  LET S1 == PlayerSweep(S, IdSeq(DOMAIN S.ap, 1), t)
  IN RoomSweep(S1, SelectSeq(gk, LAMBDA g : g \in DOMAIN S1.gr), rk, t)

----------------------------------------------------------------------------
(* The Client Adapter (class UniversalMultiplayer).  The states a game      *)
(* samples and sends are objects whose key order shows in JSON.stringify,    *)
(* so they are kept as the sequence of their <<key, value>> pairs, in        *)
(* insertion order, each key once.                                           *)

\* the identities the adapter sees: its own and those of its peers
ClientIds == {1, 2}

StateKeys == {"x", "y"}
StateValues == {"1", "2", Undefined}

\* the objects with one and with two keys
Pairs == StateKeys \X StateValues
Objs1 == {<<p>> : p \in Pairs}
Objs2 == {o \in {<<p, q>> : p \in Pairs, q \in Pairs} : o[1][1] # o[2][1]}

\* what stateAdapter() may return
Samples == {<<>>} \cup Objs1 \cup Objs2

\* the playerData and state of the peers, as they arrive from the relay
PeerDatas == {<< <<"x", "1">> >>}
PeerStates == {<< <<"x", "2">>, <<"y", "1">> >>, << <<"y", "2">> >>}

\* Object.keys(o), as a set
OKeys(o) == {o[i][1] : i \in DOMAIN o}

\* o[k], undefined when o has no such key
OGet(o, k) ==
  IF k \in OKeys(o) THEN o[CHOOSE i \in DOMAIN o : o[i][1] = k][2] ELSE Undefined

\* {...a, ...b}: the keys of a keep their place, the new keys of b follow
OMerge(a, b) ==
  [i \in DOMAIN a |-> <<a[i][1], IF a[i][1] \in OKeys(b) THEN OGet(b, a[i][1])
                                 ELSE a[i][2]>>]
    \o SelectSeq(b, LAMBDA p : p[1] \notin OKeys(a))

\* JSON.stringify(o): the pairs in key order; a key whose value is undefined
\* is left out
Stringify(o) == SelectSeq(o, LAMBDA p : p[2] # Undefined)

\* hasStateChanged(newState, oldState); oldState is lastSentState, always an
\* object, so the !oldState branch is never taken
hasStateChanged(newState, oldState) == Stringify(newState) # Stringify(oldState)

\* this.playerId = null: no identity yet (identities are 1, 2, ...)
NoId == 0

\* the constructor
NewClient(roomId) ==
  [gameId |-> "g1", roomId |-> roomId, playerId |-> NoId, players |-> EmptyObj,
   lastSentState |-> <<>>, connected |-> FALSE]

\* one thing a client callback does: socket.emit, renderAdapter or triggerEvent
Effect(kind, name, data) == [kind |-> kind, name |-> name, data |-> data]

\* socket.on('connect'): id is socket.id
OnConnect(cl, id, playerData) ==
  [cl |-> [cl EXCEPT !.connected = TRUE, !.playerId = id],
   out |-> << Effect("emit", "joinGame",
                     [gameId |-> cl.gameId, roomId |-> cl.roomId,
                      playerData |-> playerData]),
              Effect("trigger", "connected", [id |-> id]) >>]

\* socket.on('roomJoined')
OnRoomJoined(cl, data) ==
  [cl |-> [cl EXCEPT !.roomId = data.roomId],
   out |-> << Effect("trigger", "roomJoined", data) >>]

\* socket.on('playerJoined')
OnPlayerJoined(cl, data) ==
  [cl |-> [cl EXCEPT !.players = Put(cl.players, data.id, data.playerData)],
   out |-> << Effect("trigger", "playerJoined", data) >>]

\* socket.on('playerLeft')
OnPlayerLeft(cl, data) ==
  [cl |-> [cl EXCEPT !.players = Del(cl.players, data.id)],
   out |-> << Effect("trigger", "playerLeft", data) >>]

\* a stateUpdate handler without the data.id !== this.playerId test
IsPeer_Any(cl, id) == TRUE

\* data.id !== this.playerId
IsPeer(cl, id) == id # cl.playerId

\* socket.on('stateUpdate')
OnStateUpdate(cl, data) ==
  IF IsPeer(cl, data.id)
  THEN LET old == IF data.id \in DOMAIN cl.players THEN cl.players[data.id]
                  ELSE <<>>
       IN [cl |-> [cl EXCEPT !.players =
                     Put(cl.players, data.id, OMerge(old, data.state))],
           out |-> << Effect("render", "renderAdapter",
                             [id |-> data.id, state |-> data.state]),
                      Effect("trigger", "stateUpdate", data) >>]
  ELSE [cl |-> cl, out |-> <<>>]

\* the eventType strings a peer may put in a gameEvent: a custom name, and
\* the names of two events of the adapter itself
ClientEventTypes == {"chat", "stateUpdate", "gameEvent"}

\* socket.on('gameEvent')
OnGameEvent(cl, data) ==
  [cl |-> cl,
   out |-> << Effect("trigger", "gameEvent", data),
              Effect("trigger", data.eventType, data) >>]

\* socket.on('roomClosed')
OnRoomClosed(cl, data) ==
  [cl |-> cl, out |-> << Effect("trigger", "roomClosed", data) >>]

\* socket.on('disconnect'): triggerEvent('disconnected') passes no data
OnDisconnect(cl) ==
  [cl |-> [cl EXCEPT !.connected = FALSE],
   out |-> << Effect("trigger", "disconnected", Undefined) >>]

\* the error objects socket.io and io() hand to the adapter
Errors == {"Error"}

\* socket.on('connect_error')
OnConnectError(cl, error) ==
  [cl |-> cl,
   out |-> << Effect("trigger", "error",
                     [message |-> "Connection error", error |-> error]) >>]

\* the catch of connect(): io() threw, no socket callback is registered
ConnectCatch(cl, error) ==
  [cl |-> cl,
   out |-> << Effect("trigger", "error",
                     [message |-> "Failed to connect to server", error |-> error]) >>]

\* sendGameEvent(eventType, eventData = {})
SendGameEventBody(cl, eventType, eventData) ==
  IF ~cl.connected THEN [cl |-> cl, out |-> <<>>]
  ELSE [cl |-> cl,
        out |-> << Effect("emit", "gameEvent",
                          [roomId |-> cl.roomId, eventType |-> eventType,
                           eventData |-> eventData]) >>]

\* sendUpdate(), currentState being what stateAdapter() returned
SendUpdateBody(cl, currentState) ==
  IF ~cl.connected THEN [cl |-> cl, out |-> <<>>]
  ELSE IF hasStateChanged(currentState, cl.lastSentState)
       THEN [cl |-> [cl EXCEPT !.lastSentState = currentState],
             out |-> << Effect("emit", "stateUpdate",
                               [roomId |-> cl.roomId, state |-> currentState]) >>]
       ELSE [cl |-> cl, out |-> <<>>]

----------------------------------------------------------------------------
(* Actions *)

Cur == Server(activePlayers, gameRooms, socketRooms, <<>>)

Commit(S) ==
  /\ activePlayers' = S.ap
  /\ gameRooms' = S.gr
  /\ gameKeys' = KeysAfter(gameKeys, DOMAIN S.gr)
  /\ roomKeys' = [g \in DOMAIN S.gr |->
                    KeysAfter(IF g \in DOMAIN roomKeys THEN roomKeys[g] ELSE <<>>,
                              DOMAIN S.gr[g])]
  /\ socketRooms' = S.sr
  /\ sent' = S.out

Init ==
  /\ nextId = 0
  /\ activePlayers = EmptyObj
  /\ gameRooms = EmptyObj
  /\ gameKeys = <<>>
  /\ roomKeys = EmptyObj
  /\ socketRooms = EmptyObj
  /\ now = 0
  /\ due = CLEANUP_INTERVAL
  /\ closing = FALSE
  /\ messagesReceived = 0
  /\ sent = <<>>
  /\ last = [op |-> "start"]
  /\ running = TRUE
  /\ client = NewClient(Null)
  /\ effects = <<>>

\* io.on('connection'): the listener runs whenever socket.io hands it a
\* socket, also after the server.close() of the SIGINT handler (a client
\* whose transport was open before it)
Connect ==
  /\ nextId < MaxConns
  /\ nextId' = nextId + 1
  /\ messagesReceived' = messagesReceived + 1
  /\ activePlayers' = Put(activePlayers, nextId + 1,
                          [id |-> nextId + 1, roomId |-> Null, gameId |-> Null,
                           lastActivity |-> now])
  /\ socketRooms' = Put(socketRooms, nextId + 1, {})
  /\ sent' = <<>>
  /\ last' = [op |-> "connection", id |-> nextId + 1]
  /\ UNCHANGED <<gameRooms, gameKeys, roomKeys, now, due, closing, running,
                 client, effects>>

JoinGame(c, gameId, roomId, playerData) ==
  /\ c \in DOMAIN activePlayers
  /\ messagesReceived' = messagesReceived + 1
  /\ \E gen \in generateRoomId :
       /\ Truthy(roomId) => gen = roomId
       /\ Commit(JoinGameBody(Cur, c, gameId, roomId, playerData, gen, now))
  /\ last' = [op |-> "joinGame", id |-> c, gameId |-> gameId, roomId |-> roomId,
              playerData |-> playerData]
  /\ UNCHANGED <<nextId, now, due, closing, running, client, effects>>

StateUpdate(c, roomId, state) ==
  /\ c \in DOMAIN activePlayers
  /\ messagesReceived' = messagesReceived + 1
  /\ Commit(StateUpdateBody(Cur, c, roomId, state, now))
  /\ last' = [op |-> "stateUpdate", id |-> c, roomId |-> roomId, state |-> state]
  /\ UNCHANGED <<nextId, now, due, closing, running, client, effects>>

GameEvent(c, roomId, eventType) ==
  /\ c \in DOMAIN activePlayers
  /\ messagesReceived' = messagesReceived + 1
  /\ Commit(GameEventBody(Cur, c, roomId, eventType, EmptyObj, now))
  /\ last' = [op |-> "gameEvent", id |-> c, roomId |-> roomId,
              eventType |-> eventType]
  /\ UNCHANGED <<nextId, now, due, closing, running, client, effects>>

Disconnect(c) ==
  /\ c \in DOMAIN activePlayers
  /\ messagesReceived' = messagesReceived + 1
  /\ Commit(DisconnectBody(Cur, c, now))
  /\ last' = [op |-> "disconnect", id |-> c]
  /\ UNCHANGED <<nextId, now, due, closing, running, client, effects>>

\* time passes between two callbacks of the event loop: one millisecond or
\* one cleanup interval.  The cleanup timer runs once it is due, so no
\* time passes while it is overdue, and the overshoot of a step is how late
\* the timer fires.  A process that is closing exits within 3000 ms, so it
\* sees no whole interval pass.
Elapse(d) ==
  /\ running
  /\ now < due
  /\ (now + d) % CLEANUP_INTERVAL \in Offsets
  /\ d = CLEANUP_INTERVAL => ~closing /\ now \div CLEANUP_INTERVAL < MaxTicks
  /\ now' = now + d
  /\ sent' = <<>>
  /\ last' = [op |-> "elapse"]
  /\ UNCHANGED <<nextId, activePlayers, gameRooms, gameKeys, roomKeys, socketRooms,
                 due, closing, messagesReceived, running, client, effects>>

\* the timer fires, CLEANUP_INTERVAL or more after it was armed, and is
\* armed again from the time it ran; every forced disconnect counts as a
\* message received
Cleanup ==
  /\ running
  /\ now >= due
  /\ due' = now + CLEANUP_INTERVAL
  /\ Commit(CleanupBody(Cur, gameKeys, roomKeys, now))
  /\ messagesReceived' = messagesReceived
       + Cardinality(DOMAIN activePlayers) - Cardinality(DOMAIN activePlayers')
  /\ last' = [op |-> "cleanup"]
  /\ UNCHANGED <<nextId, now, closing, running, client, effects>>

\* the process ends (an uncaught exception, or process.exit): the directory
\* and every socket go with it
Exit ==
  /\ running' = FALSE
  /\ activePlayers' = EmptyObj
  /\ gameRooms' = EmptyObj
  /\ gameKeys' = <<>>
  /\ roomKeys' = EmptyObj
  /\ socketRooms' = EmptyObj

\* the events whose handler begins by destructuring its payload
PayloadEvents == {"joinGame", "stateUpdate", "gameEvent"}

\* const { ... } = data throws a TypeError when data is undefined or null
DestructureThrows(data) == ~Truthy(data)

\* a joinGame, stateUpdate or gameEvent emitted with no payload: the handler
\* counts the message, then the destructuring throws out of it; nothing
\* catches the error, and node ends the process
NoPayload(c, event, data) ==
  /\ c \in DOMAIN activePlayers
  /\ DestructureThrows(data)
  /\ messagesReceived' = messagesReceived + 1
  /\ Exit
  /\ sent' = <<>>
  /\ last' = [op |-> "uncaughtException", id |-> c, event |-> event]
  /\ UNCHANGED <<nextId, now, due, closing, client, effects>>

\* Object.keys(io.sockets.sockets): io.sockets.sockets is a Map (the sweep
\* reads it with .get), and a Map has no own enumerable property
SocketKeys(sr) == <<>>

\* the forEach of the SIGINT handler: serverShutdown to the socket, then
\* socket.disconnect(true), which runs its disconnect handler
RECURSIVE NotifyAll(_, _, _)
NotifyAll(S, ids, t) ==
  IF ids = <<>> THEN S
  ELSE LET id == Head(ids)
           S2 == IF id \in DOMAIN S.sr
                 THEN DisconnectBody(
                        Server(S.ap, S.gr, S.sr,
                               Append(S.out,
                                      Emit("serverShutdown", {id},
                                           [message |-> "Server is shutting down"]))),
                        id, t)
                 ELSE S
       IN NotifyAll(S2, Tail(ids), t)

\* process.on('SIGINT'): the notifications, the 3000 ms timer that forces
\* the exit, and server.close(); then the handler returns to the event loop,
\* where the message handlers and the cleanup timer go on running until one
\* of the two exits is taken.  A second SIGINT runs the handler again: it
\* finds the server closed and arms one more timer.
Shutdown ==
  /\ running
  /\ LET S == NotifyAll(Cur, SocketKeys(socketRooms), now)
     IN /\ Commit(S)
        /\ messagesReceived' = messagesReceived
             + Cardinality(DOMAIN activePlayers) - Cardinality(DOMAIN S.ap)
  /\ closing' = TRUE
  /\ last' = [op |-> "SIGINT"]
  /\ UNCHANGED <<nextId, now, due, running, client, effects>>

\* the setTimeout callback of the SIGINT handler: process.exit(1), whatever
\* connections are left.  The 3000 ms are below the granularity of Elapse;
\* the exit is taken at some point after the SIGINT.
ForcedExit ==
  /\ running
  /\ closing
  /\ Exit
  /\ sent' = <<>>
  /\ last' = [op |-> "exit", code |-> 1]
  /\ UNCHANGED <<nextId, now, due, closing, messagesReceived, client, effects>>

\* the server.close() callback: the http server emits 'close' once no
\* connection is left, and the callback ends the process with exit code 0
ServerClosed ==
  /\ running
  /\ closing
  /\ DOMAIN socketRooms = {}
  /\ Exit
  /\ sent' = <<>>
  /\ last' = [op |-> "exit", code |-> 0]
  /\ UNCHANGED <<nextId, now, due, closing, messagesReceived, client, effects>>

\* the run still accepts an inbound message: fewer than max were handled
Accepting(max) == running /\ messagesReceived < max

Next ==
  \/ Accepting(MaxMessages) /\ Connect
  \/ \E c \in ConnIds, g \in GameInputs, r \in RoomInputs, pd \in PlayerDatas :
       Accepting(MaxMessages) /\ JoinGame(c, g, r, pd)
  \/ \E c \in ConnIds, r \in RoomInputs, st \in States :
       Accepting(MaxMessages) /\ StateUpdate(c, r, st)
  \/ \E c \in ConnIds, r \in RoomInputs, e \in EventTypes :
       Accepting(MaxMessages) /\ GameEvent(c, r, e)
  \/ \E c \in ConnIds : Accepting(MaxMessages) /\ Disconnect(c)
  \/ \E c \in ConnIds, e \in PayloadEvents :
       Accepting(MaxMessages) /\ NoPayload(c, e, Undefined)
  \/ \E d \in {Millisecond, CLEANUP_INTERVAL} : Elapse(d)
  \/ Cleanup
  \/ Shutdown
  \/ ForcedExit
  \/ ServerClosed

\* the relay with its cleanup timer
Spec == Init /\ [][Next]_vars

NextSweep ==
  \/ Accepting(SweepMessages) /\ Connect
  \/ \E c \in ConnIds, g \in GameInputs, r \in RoomInputs, pd \in PlayerDatas :
       Accepting(SweepMessages) /\ JoinGame(c, g, r, pd)
  \/ \E c \in ConnIds, r \in RoomInputs, st \in States :
       Accepting(SweepMessages) /\ StateUpdate(c, r, st)
  \/ \E c \in ConnIds, r \in RoomInputs, e \in EventTypes :
       Accepting(SweepMessages) /\ GameEvent(c, r, e)
  \/ \E c \in ConnIds : Accepting(SweepMessages) /\ Disconnect(c)
  \/ \E d \in {Millisecond, CLEANUP_INTERVAL} : Elapse(d)
  \/ Cleanup

\* the relay with its cleanup timer, while every message carries a payload
\* and no SIGINT arrives
SpecSweep == Init /\ [][NextSweep]_vars

NextRelay ==
  \/ Accepting(RelayMessages) /\ Connect
  \/ \E c \in ConnIds, g \in GameInputs, r \in RoomInputs, pd \in PlayerDatas :
       Accepting(RelayMessages) /\ JoinGame(c, g, r, pd)
  \/ \E c \in ConnIds, r \in RoomInputs, st \in States :
       Accepting(RelayMessages) /\ StateUpdate(c, r, st)
  \/ \E c \in ConnIds, r \in RoomInputs, e \in EventTypes :
       Accepting(RelayMessages) /\ GameEvent(c, r, e)
  \/ \E c \in ConnIds : Accepting(RelayMessages) /\ Disconnect(c)
  \/ \E c \in ConnIds, e \in PayloadEvents :
       Accepting(RelayMessages) /\ NoPayload(c, e, Undefined)

\* the relay within the first millisecond, while no SIGINT arrives
SpecRelay == Init /\ [][NextRelay]_vars

NextLobby ==
  \/ Accepting(LobbyMessages) /\ Connect
  \/ \E c \in ConnIds, g \in GameInputs, r \in RoomInputs, pd \in PlayerDatas :
       Accepting(LobbyMessages) /\ JoinGame(c, g, r, pd)
  \/ \E c \in ConnIds : Accepting(LobbyMessages) /\ Disconnect(c)

\* the relay within the first millisecond, while the clients only connect,
\* join and leave
SpecLobby == Init /\ [][NextLobby]_vars

----------------------------------------------------------------------------
(* Actions of the Client Adapter: the callbacks of its socket and its timer *)

serverVars == <<nextId, activePlayers, gameRooms, gameKeys, roomKeys, socketRooms,
                now, due, closing, messagesReceived, sent, running>>

ClientStep(R, l) ==
  /\ client' = R.cl
  /\ effects' = R.out
  /\ last' = l
  /\ UNCHANGED serverVars

\* the socket connects, or connects again after a disconnect
ClientConnect(id, playerData) ==
  /\ ~client.connected
  /\ ClientStep(OnConnect(client, id, playerData),
                [op |-> "on:connect", id |-> id])

ClientRoomJoined(roomId, playerCount) ==
  /\ client.connected
  /\ LET data == [roomId |-> roomId, gameId |-> client.gameId,
                  playerId |-> client.playerId, playerCount |-> playerCount]
     IN ClientStep(OnRoomJoined(client, data), [op |-> "on:roomJoined", data |-> data])

ClientPlayerJoined(id, playerData) ==
  /\ client.connected
  /\ LET data == [id |-> id, playerData |-> playerData]
     IN ClientStep(OnPlayerJoined(client, data),
                   [op |-> "on:playerJoined", data |-> data])

ClientPlayerLeft(id) ==
  /\ client.connected
  /\ LET data == [id |-> id, timestamp |-> now]
     IN ClientStep(OnPlayerLeft(client, data), [op |-> "on:playerLeft", data |-> data])

ClientStateUpdate(id, state) ==
  /\ client.connected
  /\ LET data == [id |-> id, state |-> state, timestamp |-> now]
     IN ClientStep(OnStateUpdate(client, data),
                   [op |-> "on:stateUpdate", data |-> data])

ClientGameEvent(id, eventType) ==
  /\ client.connected
  /\ LET data == [id |-> id, eventType |-> eventType, eventData |-> EmptyObj,
                  timestamp |-> now]
     IN ClientStep(OnGameEvent(client, data), [op |-> "on:gameEvent", data |-> data])

ClientRoomClosed(roomId) ==
  /\ client.connected
  /\ LET data == [reason |-> "inactivity", roomId |-> roomId]
     IN ClientStep(OnRoomClosed(client, data), [op |-> "on:roomClosed", data |-> data])

ClientDisconnect ==
  /\ client.connected
  /\ ClientStep(OnDisconnect(client), [op |-> "on:disconnect"])

\* the socket reports that a connection attempt failed
ClientConnectError(error) ==
  /\ ~client.connected
  /\ ClientStep(OnConnectError(client, error),
                [op |-> "on:connect_error", error |-> error])

\* connect() is called and io() throws
ClientConnectCatch(error) ==
  /\ ~client.connected
  /\ ClientStep(ConnectCatch(client, error),
                [op |-> "connect:catch", error |-> error])

\* the game calls sendGameEvent(eventType)
SendGameEvent(eventType) ==
  ClientStep(SendGameEventBody(client, eventType, EmptyObj),
             [op |-> "sendGameEvent", eventType |-> eventType])

\* the setInterval(() => this.sendUpdate(), updateRate) timer fires; it
\* exists from the first connect on
SendUpdate(currentState) ==
  /\ client.playerId # NoId
  /\ ClientStep(SendUpdateBody(client, currentState),
                [op |-> "sendUpdate", state |-> currentState])

NextClient ==
  \/ \E id \in ClientIds, pd \in PeerDatas : ClientConnect(id, pd)
  \/ \E r \in RoomIds : ClientRoomJoined(r, 1)
  \/ \E id \in ClientIds, pd \in PeerDatas : ClientPlayerJoined(id, pd)
  \/ \E id \in ClientIds : ClientPlayerLeft(id)
  \/ \E id \in ClientIds, st \in PeerStates : ClientStateUpdate(id, st)
  \/ \E id \in ClientIds, e \in ClientEventTypes : ClientGameEvent(id, e)
  \/ \E r \in RoomIds : ClientRoomClosed(r)
  \/ ClientDisconnect
  \/ \E err \in Errors : ClientConnectError(err)
  \/ \E err \in Errors : ClientConnectCatch(err)
  \/ \E e \in EventTypes : SendGameEvent(e)
  \/ \E st \in Samples : SendUpdate(st)

\* one Client Adapter and the messages its socket may deliver to it
SpecClient == Init /\ [][NextClient]_vars

----------------------------------------------------------------------------
(* Properties.  last and sent describe the handler that ran last, so a     *)
(* state predicate over them speaks of the state right after that handler; *)
(* an action formula over last' and sent' compares it with the state       *)
(* before.                                                                 *)

\* the players map of room (g, r), empty when the room does not exist
PlayersOf(gr, g, r) == IF RoomExists(gr, g, r) THEN DOMAIN gr[g][r].players ELSE {}

\* the positions in out of the emits of event that are delivered to c
DeliveredTo(out, event, c) ==
  {i \in 1..Len(out) : out[i].event = event /\ c \in out[i].to}

\* C1 (as stated): a stateUpdate sent by connection c is delivered, as
\* {id: c, state, timestamp}, to every other connection subscribed to the
\* broadcast group of c's room, and never to c itself, in every state and
\* whatever roomId the message supplies.  The room of c is the one it has
\* recorded; for a connection that has recorded none, the one it names.
C1_StateUpdateToOthersOnly ==
  last.op = "stateUpdate" =>
    LET c == last.id
        room == IF Truthy(activePlayers[c].roomId) THEN activePlayers[c].roomId
                ELSE last.roomId
    IN /\ DeliveredTo(sent, "stateUpdate", c) = {}
       /\ \A d \in Group(socketRooms, room) \ {c} :
            \E i \in DeliveredTo(sent, "stateUpdate", d) :
              sent[i].data = [id |-> c, state |-> last.state, timestamp |-> now]

\* C2 (as stated): every gameEvent accepted from a connection with a recorded
\* room is delivered back to that connection and to the other members of
\* its room, whatever roomId it supplies.
C2_GameEventReachesSender ==
  (last.op = "gameEvent" /\ Truthy(activePlayers[last.id].roomId)) =>
    \E i \in DeliveredTo(sent, "gameEvent", last.id) :
      PlayersOf(gameRooms, activePlayers[last.id].gameId,
                activePlayers[last.id].roomId)
        \cap DOMAIN activePlayers \subseteq sent[i].to

\* C3: a join sends the joiner exactly one playerJoined for each identity
\* other than its own that was in Room.players before the join, and no
\* other playerJoined.
C3_BackfillExactlyOnce ==
  [][last'.op = "joinGame" =>
       LET c == last'.id
           before == PlayersOf(gameRooms, last'.gameId, activePlayers'[c].roomId)
                       \ {c}
           got == DeliveredTo(sent', "playerJoined", c)
       IN /\ \A p \in before :
               Cardinality({i \in got : sent'[i].data.id = p}) = 1
          /\ \A i \in got : sent'[i].data.id \in before]_vars

\* C3 witness: a join that was told about two earlier members
C3_Witness ==
  /\ last.op = "joinGame"
  /\ \E i, j \in DeliveredTo(sent, "playerJoined", last.id) :
       sent[i].data.id # sent[j].data.id

\* C4 (as stated): when a connection with a recorded room disconnects, it is
\* removed from the players of that room, the connections remaining in the
\* room are sent playerLeft for it, and the room stays iff a player remains.
C4_DisconnectLeavesRoom ==
  [][last'.op = "disconnect" =>
       LET c == last'.id
           g == activePlayers[c].gameId
           r == activePlayers[c].roomId
           remaining == PlayersOf(gameRooms, g, r) \ {c}
       IN (Truthy(r) /\ c \in PlayersOf(gameRooms, g, r)) =>
            /\ c \notin PlayersOf(gameRooms', g, r)
            /\ RoomExists(gameRooms', g, r) <=> remaining # {}
            /\ \A m \in remaining \cap DOMAIN activePlayers' :
                 \E i \in DeliveredTo(sent', "playerLeft", m) :
                   sent'[i].data.id = c]_vars

\* C5: a disconnect that removes the last player of a room deletes the room
\* in the same step, and the category with it when that was its last room;
\* a join to a gameId that has no category creates one that holds only the
\* room joined, with only the joiner in it.
C5_EmptyRoomAndCategoryDeleted ==
  [][/\ last'.op = "disconnect" =>
          LET c == last'.id
              g == activePlayers[c].gameId
              r == activePlayers[c].roomId
          IN (PlayersOf(gameRooms, g, r) = {c} /\ c \notin PlayersOf(gameRooms', g, r))
               => /\ ~RoomExists(gameRooms', g, r)
                  /\ DOMAIN gameRooms[g] = {r} => g \notin DOMAIN gameRooms'
     /\ last'.op = "joinGame" =>
          LET c == last'.id
              g == last'.gameId
              r == activePlayers'[c].roomId
          IN g \notin DOMAIN gameRooms
               => /\ DOMAIN gameRooms'[g] = {r}
                  /\ DOMAIN gameRooms'[g][r].players = {c}]_vars

\* C5 witness: the last player of the only room left; nothing remains
C5_Witness ==
  /\ last.op = "disconnect"
  /\ \E i \in 1..Len(sent) : sent[i].event = "playerLeft"
  /\ gameRooms = EmptyObj

\* C6 (as stated): a run of the cleanup force-disconnects every player idle
\* for longer than the timeout through the disconnect cascade: its record is
\* removed, it is removed from its room, the members remaining in the room
\* are sent playerLeft, and no emptied room stays.
C6_IdlePlayerSwept ==
  [][last'.op = "cleanup" =>
       \A id \in DOMAIN activePlayers :
         now' - activePlayers[id].lastActivity > INACTIVITY_TIMEOUT =>
           LET g == activePlayers[id].gameId
               r == activePlayers[id].roomId
           IN /\ id \notin DOMAIN activePlayers'
              /\ (Truthy(r) /\ id \in PlayersOf(gameRooms, g, r)) =>
                   /\ id \notin PlayersOf(gameRooms', g, r)
                   /\ RoomExists(gameRooms', g, r)
                        => PlayersOf(gameRooms', g, r) # {}
                   /\ \A m \in PlayersOf(gameRooms', g, r) \cap DOMAIN activePlayers' :
                        \E i \in DeliveredTo(sent', "playerLeft", m) :
                          sent'[i].data.id = id]_vars

\* C7 (as stated): after a stateUpdate from a connection with room
\* membership, its stored snapshot gives every key of the update the
\* update's value, and every other key the value it had.
C7_LastWriteWins ==
  [][last'.op = "stateUpdate" =>
       LET c == last'.id
           g == activePlayers[c].gameId
           r == activePlayers[c].roomId
       IN (Truthy(r) /\ c \in PlayersOf(gameRooms, g, r)) =>
            LET old == gameRooms[g][r].players[c]
                new == gameRooms'[g][r].players[c]
            IN /\ \A k \in DOMAIN last'.state :
                    k \in DOMAIN new /\ new[k] = last'.state[k]
               /\ \A k \in DOMAIN old \ (DOMAIN last'.state \cup {"lastActivity"}) :
                    k \in DOMAIN new /\ new[k] = old[k]]_vars

\* C8: a join that names (gameId, roomId) puts the joiner into the one room
\* under that key: the players already there stay, the category gains no
\* other room, and the roomJoined sent to the joiner reports that roomId.
C8_SameKeySameRoom ==
  [][(last'.op = "joinGame" /\ Truthy(last'.roomId)) =>
       LET c == last'.id
           g == last'.gameId
           r == last'.roomId
       IN /\ PlayersOf(gameRooms', g, r) = PlayersOf(gameRooms, g, r) \cup {c}
          /\ g \in DOMAIN gameRooms =>
               DOMAIN gameRooms'[g] = DOMAIN gameRooms[g] \cup {r}
          /\ sent'[1].event = "roomJoined"
          /\ sent'[1].to = {c}
          /\ sent'[1].data.roomId = r
          /\ sent'[1].data.gameId = g]_vars

\* C8 witness: the second connection that joined a room by its key
C8_Witness ==
  /\ last.op = "joinGame"
  /\ Truthy(last.roomId)
  /\ Cardinality(PlayersOf(gameRooms, last.gameId, last.roomId)) = 2
  /\ sent[1].data.playerCount = 2

\* C9 (as stated): a join without a roomId is placed in a room that did not
\* exist: the joiner is its only player, playerCount is 1, and the rooms of
\* that gameId that existed keep their players.
C9_NoRoomIdNewRoom ==
  [][(last'.op = "joinGame" /\ ~Truthy(last'.roomId)) =>
       LET c == last'.id
           g == last'.gameId
           r == activePlayers'[c].roomId
       IN /\ sent'[1].data.playerCount = 1
          /\ PlayersOf(gameRooms', g, r) = {c}
          /\ g \in DOMAIN gameRooms =>
               \A r2 \in DOMAIN gameRooms[g] :
                 PlayersOf(gameRooms', g, r2) = PlayersOf(gameRooms, g, r2)]_vars

\* C10: a stateUpdate or gameEvent from a connection with no recorded room
\* changes no room, category, snapshot, player record or subscription and
\* emits nothing, to the sender or to anyone.
C10_NoRoomDropped ==
  [][(last'.op \in {"stateUpdate", "gameEvent"}
        /\ ~Truthy(activePlayers[last'.id].roomId)) =>
       /\ gameRooms' = gameRooms
       /\ activePlayers' = activePlayers
       /\ socketRooms' = socketRooms
       /\ sent' = <<>>]_vars

\* C10 witness: a message from a connection that never joined, while another
\* connection is subscribed to the group it names
C10_Witness ==
  /\ last.op \in {"stateUpdate", "gameEvent"}
  /\ activePlayers[last.id].roomId = Null
  /\ Group(socketRooms, last.roomId) # {}
  /\ sent = <<>>

\* C11 (as stated): whatever joinGame, stateUpdate or gameEvent message
\* arrives, with or without a payload, handling it leaves the relay running
\* and the other connections served.
C11_NoMessageCrashes ==
  [][(running /\ last'.op \in PayloadEvents \cup {"uncaughtException"}) =>
       /\ running'
       /\ DOMAIN activePlayers \subseteq DOMAIN activePlayers']_vars

\* the positions in effects of the socket.emit calls of event
Emitted(eff, event) ==
  {i \in 1..Len(eff) : eff[i].kind = "emit" /\ eff[i].name = event}

\* structural equality of two objects: the same keys with the same values
SameState(a, b) ==
  /\ OKeys(a) = OKeys(b)
  /\ \A k \in OKeys(a) : OGet(a, k) = OGet(b, k)

\* C12 (as stated): a sendUpdate emits a stateUpdate only when the sampled
\* state differs structurally from the state last sent, and every emission
\* leaves the emitted state recorded as last sent.
C12_SendOnlyOnChange ==
  [][last'.op = "sendUpdate" =>
       /\ Emitted(effects', "stateUpdate") # {}
            => ~SameState(last'.state, client.lastSentState)
       /\ \A i \in Emitted(effects', "stateUpdate") :
            /\ effects'[i].data.state = last'.state
            /\ client'.lastSentState = last'.state]_vars

\* the positions in effects of the renderAdapter calls
Rendered(eff) == {i \in 1..Len(eff) : eff[i].kind = "render"}

\* C13: a stateUpdate that arrives with a peer's id calls
\* renderAdapter(id, state) exactly once and leaves the local view of that
\* peer equal to its old view with every key of state set to state's value,
\* the views of the other peers untouched; one that arrives with the
\* adapter's own playerId calls nothing, triggers nothing and changes nothing.
C13_PeerUpdateApplied ==
  [][last'.op = "on:stateUpdate" =>
       LET d == last'.data
           old == IF d.id \in DOMAIN client.players THEN client.players[d.id]
                  ELSE <<>>
       IN IF d.id # client.playerId
          THEN /\ Cardinality(Rendered(effects')) = 1
               /\ \A i \in Rendered(effects') :
                    effects'[i].data = [id |-> d.id, state |-> d.state]
               /\ DOMAIN client'.players = DOMAIN client.players \cup {d.id}
               /\ \A p \in DOMAIN client.players \ {d.id} :
                    client'.players[p] = client.players[p]
               /\ OKeys(client'.players[d.id]) = OKeys(old) \cup OKeys(d.state)
               /\ \A k \in OKeys(d.state) :
                    OGet(client'.players[d.id], k) = OGet(d.state, k)
               /\ \A k \in OKeys(old) \ OKeys(d.state) :
                    OGet(client'.players[d.id], k) = OGet(old, k)
          ELSE /\ effects' = <<>>
               /\ client' = client]_vars

\* C13 witness: a peer's update was merged over a key the update lacks
C13_Witness ==
  /\ last.op = "on:stateUpdate"
  /\ last.data.id # client.playerId
  /\ Rendered(effects) # {}
  /\ OKeys(client.players[last.data.id]) # OKeys(last.data.state)

\* C14 (as stated): a shutdown sends serverShutdown to every connection
\* that is open when it begins.
C14_ShutdownAnnounced ==
  [][last'.op = "SIGINT" =>
       \A c \in DOMAIN socketRooms :
         DeliveredTo(sent', "serverShutdown", c) # {}]_vars

\* C15 (as stated): a joinGame, and a stateUpdate or gameEvent accepted from
\* a connection with a recorded room, sets that connection's
\* ActivePlayer.lastActivity to the time it is handled, and changes the
\* lastActivity of no other connection.
C15_PlayerActivityRefreshed ==
  [][(last'.op = "joinGame"
        \/ (last'.op \in {"stateUpdate", "gameEvent"}
              /\ Truthy(activePlayers[last'.id].roomId))) =>
       /\ activePlayers'[last'.id].lastActivity = now'
       /\ \A d \in DOMAIN activePlayers \ {last'.id} :
            activePlayers'[d].lastActivity = activePlayers[d].lastActivity]_vars

\* C16 (as stated): a joinGame, stateUpdate or gameEvent from a connection
\* that is, once the message is handled, a player of the room its record
\* names sets that Room's lastActivity to the time it is handled.
C16_RoomActivityRefreshed ==
  [][last'.op \in {"joinGame", "stateUpdate", "gameEvent"} =>
       LET c == last'.id
           g == activePlayers'[c].gameId
           r == activePlayers'[c].roomId
       IN (Truthy(r) /\ c \in PlayersOf(gameRooms', g, r)) =>
            gameRooms'[g][r].lastActivity = now']_vars

\* C17: at the room sweep of a cleanup, every room past the timeout is
\* deleted after a roomClosed {reason: inactivity, roomId} that reaches all
\* its players still connected, its category goes when no room of it is
\* left, and every room not past the timeout stays as the player sweep left
\* it.
C17_StaleRoomsClosed ==
  [][last'.op = "cleanup" =>
       LET S1 == PlayerSweep(Cur, IdSeq(DOMAIN activePlayers, 1), now')
           Stale(g, r) == now' - S1.gr[g][r].lastActivity > INACTIVITY_TIMEOUT
       IN \A g \in DOMAIN S1.gr :
            /\ \A r \in DOMAIN S1.gr[g] :
                 IF Stale(g, r)
                 THEN /\ ~RoomExists(gameRooms', g, r)
                      /\ \E i \in 1..Len(sent') :
                           /\ sent'[i].event = "roomClosed"
                           /\ sent'[i].data = [reason |-> "inactivity", roomId |-> r]
                           /\ DOMAIN S1.gr[g][r].players \cap DOMAIN S1.ap
                                \subseteq sent'[i].to
                 ELSE /\ RoomExists(gameRooms', g, r)
                      /\ gameRooms'[g][r] = S1.gr[g][r]
            /\ g \in DOMAIN gameRooms' <=> \E r \in DOMAIN S1.gr[g] : ~Stale(g, r)]_vars

\* C17 witness: a cleanup closed a room under a player that stays connected
C17_Witness ==
  /\ last.op = "cleanup"
  /\ \E i \in 1..Len(sent) :
       /\ sent[i].event = "roomClosed"
       /\ sent[i].to \cap DOMAIN activePlayers # {}
       /\ \A g \in DOMAIN gameRooms : sent[i].data.roomId \notin DOMAIN gameRooms[g]

\* C18: the emits of a join are, in this order, roomJoined {roomId, gameId,
\* playerId, playerCount} to the joiner alone, one playerJoined for the
\* joiner that reaches every other connected player of the room and not the
\* joiner, then playerJoined messages to the joiner alone; no other
\* roomJoined is sent.
C18_JoinMessageOrder ==
  [][last'.op = "joinGame" =>
       LET c == last'.id
           g == last'.gameId
           r == activePlayers'[c].roomId
       IN /\ Len(sent') >= 2
          /\ sent'[1] = [event |-> "roomJoined", to |-> {c},
                         data |-> [roomId |-> r, gameId |-> g, playerId |-> c,
                                   playerCount |->
                                     Cardinality(PlayersOf(gameRooms', g, r))]]
          /\ sent'[2].event = "playerJoined"
          /\ sent'[2].data = [id |-> c, playerData |-> last'.playerData]
          /\ c \notin sent'[2].to
          /\ (PlayersOf(gameRooms', g, r) \ {c}) \cap DOMAIN activePlayers
               \subseteq sent'[2].to
          /\ \A i \in 3..Len(sent') :
               /\ sent'[i].event = "playerJoined"
               /\ sent'[i].to = {c}
               /\ sent'[i].data.id # c]_vars

\* C18 witness: a join that notified another member and got a backfill
C18_Witness ==
  /\ last.op = "joinGame"
  /\ Len(sent) >= 3
  /\ sent[2].to # {}

\* C19: every category of the directory holds at least one room.
C19_NoEmptyCategory ==
  \A g \in DOMAIN gameRooms : DOMAIN gameRooms[g] # {}

\* C19 witness: a cleanup whose room sweep closed the last room; its
\* category went with it
C19_Witness ==
  /\ last.op = "cleanup"
  /\ \E i \in 1..Len(sent) : sent[i].event = "roomClosed"
  /\ gameRooms = EmptyObj

\* C20: every room of the directory has at least one entry in its players
\* map.
C20_NoEmptyRoom ==
  \A g \in DOMAIN gameRooms : \A r \in DOMAIN gameRooms[g] :
    DOMAIN gameRooms[g][r].players # {}

\* C20 witness: a cleanup force-disconnected the only player of a room;
\* the room went with the player, before the room sweep looked at it
C20_Witness ==
  /\ last.op = "cleanup"
  /\ \E i \in 1..Len(sent) : sent[i].event = "playerLeft"
  /\ \A i \in 1..Len(sent) : sent[i].event # "roomClosed"
  /\ activePlayers = EmptyObj
  /\ gameRooms = EmptyObj

\* the rooms, as <<gameId, roomId>>, whose players map holds identity d
Memberships(gr, d) ==
  {m \in UNION {{<<g, r>> : r \in DOMAIN gr[g]} : g \in DOMAIN gr} :
     d \in DOMAIN gr[m[1]][m[2]].players}

\* C21 (as stated): an identity is in the players map of at most one room
\* of the whole directory.
C21_AtMostOneRoom ==
  \A d \in ConnIds : Cardinality(Memberships(gameRooms, d)) <= 1

\* C22: a stateUpdate or gameEvent accepted from a connection with a
\* recorded room is one emit to the subscribers of the roomId the message
\* carries (the sender left out for a stateUpdate), whether or not that is
\* the sender's recorded room or a room it ever joined.
C22_SuppliedRoomIsTarget ==
  (last.op \in {"stateUpdate", "gameEvent"}
     /\ Truthy(activePlayers[last.id].roomId)) =>
    /\ Len(sent) = 1
    /\ sent[1].event = last.op
    /\ sent[1].to = {d \in DOMAIN socketRooms : last.roomId \in socketRooms[d]}
                      \ (IF last.op = "stateUpdate" THEN {last.id} ELSE {})

\* C22 witness: a message naming a room its sender never joined reached the
\* subscribers of that room
C22_Witness ==
  /\ last.op \in {"stateUpdate", "gameEvent"}
  /\ Truthy(activePlayers[last.id].roomId)
  /\ last.roomId # activePlayers[last.id].roomId
  /\ last.roomId \notin socketRooms[last.id]
  /\ Len(sent) = 1
  /\ sent[1].to # {}

\* C23 (as stated): a joinGame that carries no gameId creates no category
\* and no room, adds no player to a room, records no membership and
\* subscribes the connection to nothing.
C23_GameIdRequired ==
  [][(last'.op = "joinGame" /\ ~Truthy(last'.gameId)) =>
       /\ gameRooms' = gameRooms
       /\ activePlayers' = activePlayers
       /\ socketRooms' = socketRooms]_vars

\* d is a player of some room, and of no room of gameId g
OnlyOtherGame(gr, d, g) ==
  /\ Memberships(gr, d) # {}
  /\ \A m \in Memberships(gr, d) : m[1] # g

\* C24 (as stated): a playerJoined, playerLeft, stateUpdate or gameEvent
\* that a connection causes for its recorded room (gameId, roomId), naming
\* that roomId, is delivered to no connection whose memberships are all in
\* rooms of other gameIds; a roomClosed is delivered to no connection that
\* has memberships and none in a room closed under that roomId.
C24_NoCrossGameDelivery ==
  [][/\ (last'.op \in {"joinGame", "stateUpdate", "gameEvent", "disconnect"}) =>
          LET c == last'.id
              rec == IF last'.op = "disconnect" THEN activePlayers[c]
                     ELSE activePlayers'[c]
              own == last'.op \in {"stateUpdate", "gameEvent"}
                       => last'.roomId = rec.roomId
          IN (Truthy(rec.roomId) /\ own) =>
               \A i \in 1..Len(sent') : \A d \in sent'[i].to \ {c} :
                 ~OnlyOtherGame(gameRooms', d, rec.gameId)
     /\ last'.op = "cleanup" =>
          \A i \in 1..Len(sent') :
            sent'[i].event = "roomClosed" =>
              \A d \in sent'[i].to :
                Memberships(gameRooms, d) # {} =>
                  \E m \in Memberships(gameRooms, d) :
                    /\ m[2] = sent'[i].data.roomId
                    /\ ~RoomExists(gameRooms', m[1], m[2])]_vars

\* C25 (as stated): whenever an ActivePlayer records a roomId and a gameId,
\* that room exists and its players map holds the identity.
C25_RecordedRoomExists ==
  \A d \in DOMAIN activePlayers :
    (Truthy(activePlayers[d].roomId) /\ Truthy(activePlayers[d].gameId)) =>
      d \in PlayersOf(gameRooms, activePlayers[d].gameId, activePlayers[d].roomId)

\* C26 (as stated): every identity in a players map is a live connection
\* whose ActivePlayer record names that (gameId, roomId).
C26_PlayersAreLiveMembers ==
  \A g \in DOMAIN gameRooms : \A r \in DOMAIN gameRooms[g] :
    \A d \in DOMAIN gameRooms[g][r].players :
      /\ d \in DOMAIN activePlayers
      /\ activePlayers[d].gameId = g
      /\ activePlayers[d].roomId = r

\* the roomId the emits of the handler that ran speak of
RoomOfEmits(l, apBefore, apAfter) ==
  IF l.op \in {"stateUpdate", "gameEvent"} THEN l.roomId
  ELSE IF l.op = "joinGame" THEN apAfter[l.id].roomId
  ELSE apBefore[l.id].roomId

\* C27 (as stated): a connection whose recorded room was closed by the room
\* sweep (its record still names the room, which is gone) and that has not
\* joined again is sent no stateUpdate, gameEvent, playerJoined or
\* playerLeft for that roomId.
C27_NothingAfterRoomClosed ==
  [][last'.op \in {"joinGame", "stateUpdate", "gameEvent", "disconnect"} =>
       \A d \in DOMAIN activePlayers :
         LET g == activePlayers[d].gameId
             r == activePlayers[d].roomId
         IN (/\ Truthy(r) /\ Truthy(g)
             /\ ~RoomExists(gameRooms, g, r)
             /\ ~(last'.op = "joinGame" /\ last'.id = d)
             /\ RoomOfEmits(last', activePlayers, activePlayers') = r) =>
              \A i \in 1..Len(sent') : d \notin sent'[i].to]_vars

\* the backfill of a join: the playerJoined emits after the first two
Backfill(out) == {i \in 3..Len(out) : out[i].event = "playerJoined"}

\* C28: the playerCount of the roomJoined of a join is the size of the
\* room's players map after the join, and one more than the number of
\* backfill playerJoined messages the joiner is sent.
C28_PlayerCountMatches ==
  [][last'.op = "joinGame" =>
       LET c == last'.id
           r == activePlayers'[c].roomId
       IN /\ sent'[1].event = "roomJoined"
          /\ sent'[1].data.playerCount =
               Cardinality(PlayersOf(gameRooms', last'.gameId, r))
          /\ sent'[1].data.playerCount = 1 + Cardinality(Backfill(sent'))
          /\ \A i \in Backfill(sent') : sent'[i].to = {c}]_vars

\* C28 witness: the third player of a room was told playerCount 3
C28_Witness ==
  /\ last.op = "joinGame"
  /\ sent[1].data.playerCount = 3
  /\ Cardinality(Backfill(sent)) = 2

\* C29 (as stated): an adapter constructed without a roomId emits no
\* stateUpdate and records no state as last sent while it has received no
\* roomJoined, so every stateUpdate it emits carries a roomId it was given.
C29_NoUpdateBeforeRoomJoined ==
  [][last'.op = "sendUpdate" =>
       /\ client.roomId = Null =>
            /\ Emitted(effects', "stateUpdate") = {}
            /\ client'.lastSentState = client.lastSentState
       /\ \A i \in Emitted(effects', "stateUpdate") :
            effects'[i].data.roomId \in RoomIds]_vars

\* the events the adapter triggers itself
BuiltIn ==
  {"connected", "disconnected", "roomJoined", "playerJoined", "playerLeft",
   "stateUpdate", "roomClosed", "error"}

\* how often a listener registered for name is invoked: once for every
\* triggerEvent(name) of the callback
Invocations(eff, name) ==
  Cardinality({i \in 1..Len(eff) : eff[i].kind = "trigger" /\ eff[i].name = name})

\* C30 (as stated): an inbound gameEvent, whatever its eventType, invokes
\* the gameEvent listeners once, the listeners of its eventType once, and
\* the listeners of no built-in event.
C30_GameEventListenersOnce ==
  [][last'.op = "on:gameEvent" =>
       /\ Invocations(effects', "gameEvent") = 1
       /\ Invocations(effects', last'.data.eventType) = 1
       /\ \A b \in BuiltIn : Invocations(effects', b) = 0]_vars

====
